---- MODULE Spec2Model ----
(***************************************************************************)
(* Name-order correction of internal/prepare/pipeline_reorder.go.          *)
(*                                                                         *)
(* A Go string is modelled as a sequence of characters, each character a   *)
(* one-element TLA+ string (the no-break space U+00A0 is the token NBSP).  *)
(* ReorderSDNName is modelled step by step: strings.EqualFold, the regular *)
(* expression surnamePrecedes with Go's leftmost-first FindString,         *)
(* strings.TrimPrefix, strings.TrimSuffix, fmt.Sprintf("%s %s") and        *)
(* strings.TrimSpace.  The state machine draws a name and a type, calls    *)
(* ReorderSDNName on them and then calls it again on its own result.       *)
(***************************************************************************)
EXTENDS Integers, Sequences, FiniteSets, TLC

VARIABLES name, tpe, out, again, pc

vars == <<name, tpe, out, again, pc>>

----------------------------------------------------------------------------
(* Bounds and input alphabet *)

MaxLen == 4

NBSP == "U+00A0"

\* one lower-case letter, one upper-case letter, a space, a period, a comma,
\* a question mark, a hyphen (any character outside the pattern's class) and
\* a Unicode space that the pattern's \s does not cover
Alphabet == {"a", "B", " ", ".", ",", "?", "-", NBSP}

Names == UNION {[1..n -> Alphabet] : n \in 0..MaxLen}

individual == <<"i","n","d","i","v","i","d","u","a","l">>

Types == { individual,
           <<"I","n","d","i","v","i","d","u","a","l">>,
           <<"I","N","D","I","V","I","D","U","A","L">>,
           <<"O","r","g","a","n","i","z","a","t","i","o","n">>,
           <<"V","e","s","s","e","l">>,
           <<>> }

----------------------------------------------------------------------------
(* Characters *)

LowerAZ == <<"a","b","c","d","e","f","g","h","i","j","k","l","m",
             "n","o","p","q","r","s","t","u","v","w","x","y","z">>

UpperAZ == <<"A","B","C","D","E","F","G","H","I","J","K","L","M",
             "N","O","P","Q","R","S","T","U","V","W","X","Y","Z">>

Range(f) == {f[i] : i \in DOMAIN f}

\* the regular expression's \s: [\t\n\f\r ]
ReSpace == {"\t", "\n", "\f", "\r", " "}

\* unicode.IsSpace as strings.TrimSpace uses it: \s and, among others, U+00A0
IsSpace(c) == c \in ReSpace \cup {NBSP}

\* the character class [\s?a-zA-Z\.]
InClassNoPeriod(c) == c \in ReSpace \cup {"?"} \cup Range(LowerAZ) \cup Range(UpperAZ)

InClass(c) == c \in ReSpace \cup {"?"} \cup Range(LowerAZ) \cup Range(UpperAZ) \cup {"."}

\* case folding of one character (ASCII letters; no other character folds
\* to a letter of "individual")
FoldChar(c) ==
    IF \E i \in DOMAIN UpperAZ : UpperAZ[i] = c
    THEN LowerAZ[CHOOSE i \in DOMAIN UpperAZ : UpperAZ[i] = c]
    ELSE c

----------------------------------------------------------------------------
(* Library functions *)

EqualFoldNoLength(s, t) ==
    \A i \in 1..Len(s) : i <= Len(t) /\ FoldChar(s[i]) = FoldChar(t[i])

EqualFoldExact(s, t) == s = t

\* strings.EqualFold
EqualFold(s, t) ==
    /\ Len(s) = Len(t)
    /\ \A i \in 1..Len(s) : FoldChar(s[i]) = FoldChar(t[i])

HasPrefix(s, p) == Len(p) <= Len(s) /\ SubSeq(s, 1, Len(p)) = p

HasSuffix(s, x) == Len(x) <= Len(s) /\ SubSeq(s, Len(s) - Len(x) + 1, Len(s)) = x

TrimPrefix(s, p) == IF HasPrefix(s, p) THEN SubSeq(s, Len(p) + 1, Len(s)) ELSE s

\* strings.TrimRight: drops every trailing character that occurs in cutset
TrimRight(s, cutset) ==
    LET keep == {i \in 1..Len(s) : s[i] \notin Range(cutset)}
        last == IF keep = {} THEN 0 ELSE CHOOSE i \in keep : \A j \in keep : j <= i
    IN  SubSeq(s, 1, last)

TrimSuffix(s, x) == IF HasSuffix(s, x) THEN SubSeq(s, 1, Len(s) - Len(x)) ELSE s

SprintfSwapped(a, b) == b \o <<" ">> \o a

\* fmt.Sprintf("%s %s", a, b)
Sprintf(a, b) == a \o <<" ">> \o b

TrimLeftSpace(s) ==
    LET keep == {i \in 1..Len(s) : ~IsSpace(s[i])}
    IN  IF keep = {} THEN <<>>
        ELSE SubSeq(s, CHOOSE i \in keep : \A j \in keep : i <= j, Len(s))

\* strings.TrimSpace
TrimSpace(s) ==
    LET keep == {i \in 1..Len(s) : ~IsSpace(s[i])}
    IN  IF keep = {} THEN <<>>
        ELSE SubSeq(s, CHOOSE i \in keep : \A j \in keep : i <= j,
                       CHOOSE i \in keep : \A j \in keep : j <= i)

----------------------------------------------------------------------------
(* surnamePrecedes = (,?[\s?a-zA-Z\.]{1,})$ *)

\* the pattern matches s from position i to the end of s: an optional comma,
\* then one or more characters of the class, then the end of the text
MatchAt(s, i) ==
    LET j == IF s[i] = "," THEN i + 1 ELSE i
    IN  /\ j <= Len(s)
        /\ \A k \in j..Len(s) : InClass(s[k])

\* start of the leftmost match, 0 when there is none
FindStringIndex(s) ==
    IF \E i \in 1..Len(s) : MatchAt(s, i)
    THEN CHOOSE i \in 1..Len(s) : MatchAt(s, i) /\ \A j \in 1..(i-1) : ~MatchAt(s, j)
    ELSE 0

\* surnamePrecedes.FindString(s)
FindString(s) ==
    IF FindStringIndex(s) = 0 THEN <<>> ELSE SubSeq(s, FindStringIndex(s), Len(s))

----------------------------------------------------------------------------
(* ReorderSDNName *)

ReorderSDNName(n, t) ==
    IF ~EqualFold(t, individual)
    THEN n
    ELSE LET v == FindString(n)
         IN  IF v = <<>>
             THEN n
             ELSE TrimSpace(Sprintf(TrimPrefix(v, <<",">>), TrimSuffix(n, v)))

----------------------------------------------------------------------------
(* State machine: one call, then a second call on the result *)

Init ==
    /\ name \in Names
    /\ tpe \in Types
    /\ out = <<>>
    /\ again = <<>>
    /\ pc = "input"

Call ==
    /\ pc = "input"
    /\ out' = ReorderSDNName(name, tpe)
    /\ pc' = "called"
    /\ UNCHANGED <<name, tpe, again>>

CallAgain ==
    /\ pc = "called"
    /\ again' = ReorderSDNName(out, tpe)
    /\ pc' = "twice"
    /\ UNCHANGED <<name, tpe, out>>

Next == Call \/ CallAgain

Spec == Init /\ [][Next]_vars

----------------------------------------------------------------------------
(* Vocabulary of the properties *)

Letter(c) == c \in Range(LowerAZ) \cup Range(UpperAZ)

UpperOf(c) == UpperAZ[CHOOSE i \in DOMAIN LowerAZ : LowerAZ[i] = c]

\* t spells "individual" in any mix of upper and lower case
IsIndividualType(t) ==
    /\ Len(t) = Len(individual)
    /\ \A i \in 1..Len(individual) :
          t[i] = individual[i] \/ t[i] = UpperOf(individual[i])

\* a character of a given-name segment: a letter, a whitespace character of
\* the pattern, or a period
NameChar(c) == Letter(c) \/ c \in ReSpace \/ c = "."

Last(s) == s[Len(s)]

NoOuterSpace(s) == s = <<>> \/ (~IsSpace(s[1]) /\ ~IsSpace(Last(s)))

\* r is s without its leading and trailing whitespace
IsTrimOf(r, s) ==
    \E i \in 1..(Len(s) + 1), j \in 0..Len(s) :
        /\ r = SubSeq(s, i, j)
        /\ \A k \in 1..(i - 1) : IsSpace(s[k])
        /\ \A k \in (j + 1)..Len(s) : IsSpace(s[k])
        /\ NoOuterSpace(r)

Count(c, s) == Cardinality({i \in 1..Len(s) : s[i] = c})

\* the whitespace-delimited tokens of s
Tokens(s) ==
    { SubSeq(s, i, j) : <<i, j>> \in
        { p \in (1..Len(s)) \X (1..Len(s)) :
            /\ p[1] <= p[2]
            /\ \A k \in p[1]..p[2] : ~IsSpace(s[k])
            /\ (p[1] = 1 \/ IsSpace(s[p[1] - 1]))
            /\ (p[2] = Len(s) \/ IsSpace(s[p[2] + 1])) } }

Called == pc # "input"

----------------------------------------------------------------------------
(* Properties *)

\* C1: name-order correction is idempotent for individuals: reordering the
\* result of a reordering gives that result again, for every name.
C1_Idempotent ==
    (pc = "twice" /\ tpe = individual) => again = out

\* C2 as stated: every type string other than "individual" leaves the name
\* exactly as given.
C2_NotEqualUnchanged ==
    (Called /\ tpe # individual) => out = name

\* C2, amended: every type string that is not "individual" in any mix of
\* upper and lower case leaves the name exactly as given: no reordering, no
\* comma removal, no trimming.
C2_NonIndividualUnchanged ==
    (Called /\ ~IsIndividualType(tpe)) => out = name

C2_Witness ==
    /\ pc = "called"
    /\ tpe = <<"O","r","g","a","n","i","z","a","t","i","o","n">>
    /\ name = <<" ", "a", ",", "B">>
    /\ out = name

\* C3: for an individual and a name P + "," + G where G is non-empty and made
\* of letters, whitespace and periods only, the result is G, one space, P,
\* with the leading and trailing whitespace of the whole removed and that one
\* comma dropped.
C3_SurnameFirstRewritten ==
    (Called /\ IsIndividualType(tpe)) =>
        \A c \in 1..Len(name) :
            LET P == SubSeq(name, 1, c - 1)
                G == SubSeq(name, c + 1, Len(name))
            IN  (name[c] = "," /\ G # <<>> /\ \A k \in 1..Len(G) : NameChar(G[k]))
                    => IsTrimOf(out, G \o <<" ">> \o P)

C3_Witness ==
    /\ pc = "called"
    /\ tpe = individual
    /\ name = <<"B", ",", " ", "a">>
    /\ out = <<"a", " ", "B">>

\* C4: for an individual, a name without a comma, without leading or trailing
\* whitespace and made of letters, periods and interior whitespace only is
\* returned equal to the input.
C4_NothingToReorder ==
    ( /\ Called
      /\ IsIndividualType(tpe)
      /\ \A k \in 1..Len(name) : NameChar(name[k])
      /\ NoOuterSpace(name) ) => out = name

C4_Witness ==
    /\ pc = "called"
    /\ tpe = individual
    /\ name = <<"a", ".", " ", "B">>
    /\ out = name

\* C5: for an individual, a name whose final character is not a letter, a
\* whitespace character or a period (and the empty name) does not match and
\* is returned exactly as given.
C5_OtherFinalCharUnchanged ==
    ( /\ Called
      /\ IsIndividualType(tpe)
      /\ (name = <<>> \/ ~(Letter(Last(name)) \/ IsSpace(Last(name)) \/ Last(name) = ".")) )
        => out = name

\* C6: for an individual, the segment moved to the front begins at the start
\* of the name, at a comma or at a whitespace boundary, so every
\* whitespace-delimited token of the result is a token of the input (up to
\* the one removed comma): no token is cut in two.
C6_WholeTokensMoved ==
    (Called /\ IsIndividualType(tpe) /\ FindStringIndex(name) # 0) =>
        LET k == FindStringIndex(name)
            uncomma == [i \in 1..Len(name) |->
                          IF i = k /\ name[i] = "," THEN " " ELSE name[i]]
        IN  /\ \/ k = 1
               \/ name[k] = ","
               \/ IsSpace(name[k])
               \/ IsSpace(name[k - 1])
            /\ Tokens(out) \subseteq Tokens(uncomma)

\* C7: for an individual and a name in which the trailing pattern matches,
\* the result has no leading and no trailing whitespace character.
C7_RewriteTrimmed ==
    (Called /\ IsIndividualType(tpe) /\ FindString(name) # <<>>) => NoOuterSpace(out)

C7_Witness ==
    /\ pc = "called"
    /\ tpe = individual
    /\ name = <<" ", "a", ",", " ">>
    /\ out = <<"a">>

\* C8: for every name and type, the result has the same non-whitespace
\* characters as the name, each as many times, except that at most one comma
\* is removed.
C8_CharactersPreserved ==
    Called =>
        \A c \in Range(name) \cup Range(out) :
            \/ IsSpace(c)
            \/ Count(c, out) = Count(c, name)
            \/ c = "," /\ Count(c, out) = Count(c, name) - 1

C8_Witness ==
    /\ pc = "called"
    /\ tpe = individual
    /\ name = <<",", "a", ",", "B">>
    /\ out = <<"B", " ", ",", "a">>

\* C9: the type test ignores letter case: every spelling of "individual" in
\* upper and lower case gives the result of "individual", and every other
\* type gives the result of a non-individual type.
C9_TypeCaseIgnored ==
    Called =>
        /\ IsIndividualType(tpe) => out = ReorderSDNName(name, individual)
        /\ ~IsIndividualType(tpe) => out = ReorderSDNName(name, <<>>)

C9_Witness ==
    /\ pc = "called"
    /\ tpe = <<"I","N","D","I","V","I","D","U","A","L">>
    /\ name = <<"a", ",", "B">>
    /\ out = <<"B", " ", "a">>

====
